---- MODULE Spec2Model ----
(***************************************************************************)
(* A model of wordtool: the placeholder enumerator (src/src/enumerate.py)  *)
(* and the abbreviation/term reducer (src/src/extract.py).                 *)
(*                                                                         *)
(* Text is a sequence of one-character strings.  Offsets in match records  *)
(* are Python offsets (0-based, end exclusive).                            *)
(***************************************************************************)
EXTENDS Integers, Sequences, FiniteSets, TLC

(***************************************************************************)
(* Bounds of the model.                                                    *)
(***************************************************************************)
\* Text pieces placed in one input document of the enumerator.
MaxPieces == 3

(***************************************************************************)
(* Characters and strings.                                                 *)
(***************************************************************************)
UpperCase ==
    <<"A","B","C","D","E","F","G","H","I","J","K","L","M",
      "N","O","P","Q","R","S","T","U","V","W","X","Y","Z">>

Digits == <<"0","1","2","3","4","5","6","7","8","9">>

WhiteSpace == {" ", "\t", "\n"}

UpperCaseSet == {UpperCase[i] : i \in 1..Len(UpperCase)}

DigitSet == {Digits[i] : i \in 1..Len(Digits)}

IsUpper(c) == c \in UpperCaseSet

IsDigit(c) == c \in DigitSet

\* Code point order of an upper-case letter.
Ord(c) == CHOOSE i \in 1..Len(UpperCase) : UpperCase[i] = c

Min(a, b) == IF a < b THEN a ELSE b

\* Python's text[a:b] for 0 <= a, 0 <= b: indices are clamped to the length.
Slice(text, a, b) ==
    LET lo == Min(a, Len(text))
        hi == Min(b, Len(text))
    IN  IF lo >= hi THEN <<>> ELSE SubSeq(text, lo + 1, hi)

\* Python's text[a:].
SliceFrom(text, a) == Slice(text, a, Len(text))

RECURSIVE Flatten(_)
\* The concatenation of a sequence of strings.
Flatten(ss) == IF ss = <<>> THEN <<>> ELSE Head(ss) \o Flatten(Tail(ss))

RECURSIVE LStrip(_)
LStrip(s) ==
    IF s # <<>> /\ Head(s) \in WhiteSpace THEN LStrip(Tail(s)) ELSE s

RECURSIVE RStrip(_)
RStrip(s) ==
    IF s # <<>> /\ s[Len(s)] \in WhiteSpace
    THEN RStrip(SubSeq(s, 1, Len(s) - 1))
    ELSE s

\* str.strip()
Strip(s) == RStrip(LStrip(s))

\* str.startswith for a one-character prefix.
StartsWith(s, c) == s # <<>> /\ Head(s) = c

RECURSIVE FindFrom(_, _, _)
\* The least 0-based offset >= from at which sub occurs in text, or -1.
FindFrom(text, sub, from) ==
    IF from + Len(sub) > Len(text) THEN -1
    ELSE IF Slice(text, from, from + Len(sub)) = sub THEN from
    ELSE FindFrom(text, sub, from + 1)

\* str.find
Find(text, sub) == FindFrom(text, sub, 0)

\* The `in` operator on strings.
Contains(text, sub) == Find(text, sub) # -1

RECURSIVE DecimalDigits(_)
\* The decimal digits of n >= 0, without padding.
DecimalDigits(n) ==
    IF n < 10 THEN <<Digits[n + 1]>>
    ELSE DecimalDigits(n \div 10) \o <<Digits[(n % 10) + 1]>>

RECURSIVE ZeroPad(_, _)
ZeroPad(s, width) == IF Len(s) >= width THEN s ELSE ZeroPad(<<"0">> \o s, width)

\* The width of the number in a generated token: the 3 of {number:03d}.
PadWidth == 3

\* f'{number}': the number without padding.
FormatUnpadded(number) == DecimalDigits(number)

\* f'{number:03d}': padded with zeros to three digits, wider when it needs to be.
Format03d(number) == ZeroPad(DecimalDigits(number), PadWidth)

\* f'[{prefix}-{number:03d}]'
Replacement(prefix, number) ==
    <<"[">> \o prefix \o <<"-">> \o Format03d(number) \o <<"]">>

(***************************************************************************)
(* The token pattern.  The pattern argument is a regular expression; the   *)
(* model covers the patterns \[([A-Z]+)-[Xx]{w}\], named by w, of which    *)
(* the default \[([A-Z]+)-[Xx][Xx][Xx]\] is w = 3.                         *)
(***************************************************************************)
DefaultPattern == 3

Patterns == {DefaultPattern - 1, DefaultPattern}

REQ == <<"R","E","Q">>

SYS == <<"S","Y","S">>

FOO == <<"F","O","O">>

\* prefixes = ['REQ', 'SYS']
DefaultPrefixes == <<REQ, SYS>>

PrefixSet == {DefaultPrefixes[i] : i \in 1..Len(DefaultPrefixes)}

RECURSIVE UpperRun(_, _)
\* The number of consecutive upper-case letters of text from 1-based index i.
UpperRun(text, i) ==
    IF i <= Len(text) /\ IsUpper(text[i]) THEN 1 + UpperRun(text, i + 1) ELSE 0

RECURSIVE PlaceholderRun(_, _, _)
\* Whether text holds n characters X or x from 1-based index i.
PlaceholderRun(text, i, n) ==
    IF n = 0 THEN TRUE
    ELSE /\ i <= Len(text)
         /\ text[i] \in {"X", "x"}
         /\ PlaceholderRun(text, i + 1, n - 1)

\* re.match of the pattern at 0-based offset s: the end offset, or -1.
\* [A-Z]+ is greedy and is followed by "-", which is no letter, so the
\* letters taken are all the letters there are.
MatchAt(text, s, pattern) ==
    LET n == UpperRun(text, s + 2)
        e == s + 1 + n + 1 + pattern + 1
    IN  IF /\ s + 1 <= Len(text)
           /\ text[s + 1] = "["
           /\ n >= 1
           /\ e <= Len(text)
           /\ text[s + 2 + n] = "-"
           /\ PlaceholderRun(text, s + 3 + n, pattern)
           /\ text[e] = "]"
        THEN e
        ELSE -1

RECURSIVE FindIterFrom(_, _, _)
\* list(re.finditer(pattern, text)) from offset s on: the matches, non-overlapping,
\* left to right, each with group(1), group(0), start() and end().
FindIterFrom(text, s, pattern) ==
    IF s >= Len(text) THEN <<>>
    ELSE LET e == MatchAt(text, s, pattern)
         IN  IF e = -1 THEN FindIterFrom(text, s + 1, pattern)
             ELSE <<[prefix |-> Slice(text, s + 1, s + 1 + UpperRun(text, s + 2)),
                     text   |-> Slice(text, s, e),
                     start  |-> s,
                     end    |-> e]>>
                  \o FindIterFrom(text, e, pattern)

FindIter(text, pattern) == FindIterFrom(text, 0, pattern)

(***************************************************************************)
(* The document.  Its structure is fixed; the text of its spans varies.    *)
(* A slot is a text-bearing unit: a run of a paragraph (a visible span) or *)
(* a w:t leaf below a w:ins / w:del element of the paragraph.              *)
(*                                                                         *)
(*   paragraph 1 (body):    runs 1 and 2; <w:del> leaf 3 </w:del>          *)
(*                          <w:ins> <w:ins> leaf 4 </w:ins> </w:ins>       *)
(*   paragraph 2 (a cell merged over two columns, which row.cells lists    *)
(*                twice):   run 5                                          *)
(*   paragraph 3 (header):  run 6                                          *)
(*   paragraph 4 (footer):  run 7                                          *)
(***************************************************************************)
Slots == 1..7

\* doc.paragraphs
Body == <<1>>

\* doc.tables: tables of rows (row.cells) of cells (cell.paragraphs).
Tables == << << << <<2>>, <<2>> >> >> >>

\* doc.sections
Sections == << [header |-> <<3>>, footer |-> <<4>>] >>

\* paragraph.runs, as slots.
ParagraphRuns == << <<1, 2>>, <<5>>, <<6>>, <<7>> >>

\* The w:ins, w:del and w:t elements below paragraph._element, in document
\* order; parent 0 is the paragraph element.
ParagraphXml ==
    << << [tag |-> "del", parent |-> 0, slot |-> 0],
          [tag |-> "t",   parent |-> 1, slot |-> 3],
          [tag |-> "ins", parent |-> 0, slot |-> 0],
          [tag |-> "ins", parent |-> 3, slot |-> 0],
          [tag |-> "t",   parent |-> 4, slot |-> 4] >>,
       <<>>, <<>>, <<>> >>

RECURSIVE IsDescendant(_, _, _)
\* Whether node i of nodes lies below node a (0: the paragraph element).
IsDescendant(nodes, i, a) ==
    IF nodes[i].parent = a THEN TRUE
    ELSE IF nodes[i].parent = 0 THEN FALSE
    ELSE IsDescendant(nodes, nodes[i].parent, a)

\* element.findall('.//w:<tag>'): the descendants of node a with the tag, in
\* document order.
FindAll(nodes, a, tag) ==
    SelectSeq([i \in 1..Len(nodes) |-> i],
              LAMBDA i : nodes[i].tag = tag /\ IsDescendant(nodes, i, a))

(***************************************************************************)
(* First pass: collection.                                                 *)
(***************************************************************************)
\* The matches of one text whose prefix is recognized, as
\* (prefix, match.group(0), (paragraph, run, match.start(), match.end())).
RecognizedMatches(text, p, slot, pattern, prefixes) ==
    LET found == SelectSeq(FindIter(text, pattern), LAMBDA m : m.prefix \in prefixes)
    IN  [k \in 1..Len(found) |->
            [prefix |-> found[k].prefix,
             text   |-> found[k].text,
             para   |-> p,
             slot   |-> slot,
             start  |-> found[k].start,
             end    |-> found[k].end]]

\* One w:ins or w:del element: its w:t leaves, the empty ones skipped.
CollectXmlElementPatterns(d, p, elem, pattern, prefixes) ==
    LET nodes  == ParagraphXml[p]
        leaves == FindAll(nodes, elem, "t")
    IN  Flatten([k \in 1..Len(leaves) |->
            LET text == d[nodes[leaves[k]].slot]
            IN  IF text = <<>> THEN <<>>
                ELSE RecognizedMatches(text, p, nodes[leaves[k]].slot, pattern, prefixes)])

\* Every w:ins element of the paragraph, then every w:del element.
CollectXmlPatterns(d, p, pattern, prefixes) ==
    LET nodes == ParagraphXml[p]
        ins   == FindAll(nodes, 0, "ins")
        del   == FindAll(nodes, 0, "del")
    IN  Flatten([k \in 1..Len(ins) |->
                    CollectXmlElementPatterns(d, p, ins[k], pattern, prefixes)])
        \o
        Flatten([k \in 1..Len(del) |->
                    CollectXmlElementPatterns(d, p, del[k], pattern, prefixes)])

\* The runs of the paragraph, the blank ones skipped, then its tracked changes.
CollectParagraphPatterns(d, p, pattern, prefixes) ==
    LET runs == ParagraphRuns[p]
    IN  IF runs = <<>> THEN <<>>
        ELSE Flatten([k \in 1..Len(runs) |->
                        IF Strip(d[runs[k]]) = <<>> THEN <<>>
                        ELSE RecognizedMatches(d[runs[k]], p, runs[k], pattern, prefixes)])
             \o CollectXmlPatterns(d, p, pattern, prefixes)

CollectParagraphs(d, ps, pattern, prefixes) ==
    Flatten([k \in 1..Len(ps) |-> CollectParagraphPatterns(d, ps[k], pattern, prefixes)])

\* all_matches before it is sorted: body, tables, then headers and footers.
CollectInOrder(d, pattern, prefixes) ==
    CollectParagraphs(d, Body, pattern, prefixes)
    \o
    Flatten([t \in 1..Len(Tables) |->
        Flatten([r \in 1..Len(Tables[t]) |->
            Flatten([c \in 1..Len(Tables[t][r]) |->
                CollectParagraphs(d, Tables[t][r][c], pattern, prefixes)])])])
    \o
    Flatten([s \in 1..Len(Sections) |->
        CollectParagraphs(d, Sections[s].header, pattern, prefixes)
        \o CollectParagraphs(d, Sections[s].footer, pattern, prefixes)])

RECURSIVE StrLess(_, _)
\* a < b on strings of upper-case letters.
StrLess(a, b) ==
    IF b = <<>> THEN FALSE
    ELSE IF a = <<>> THEN TRUE
    ELSE IF Head(a) # Head(b) THEN Ord(Head(a)) < Ord(Head(b))
    ELSE StrLess(Tail(a), Tail(b))

\* m goes in before the first element whose prefix is not below its own:
\* elements of equal prefix change places.
InsertBeforeEqual(sorted, m) ==
    LET k == Cardinality({i \in 1..Len(sorted) : StrLess(sorted[i].prefix, m.prefix)})
    IN  SubSeq(sorted, 1, k) \o <<m>> \o SubSeq(sorted, k + 1, Len(sorted))

\* m goes in behind every element whose prefix is not above its own.
InsertByPrefix(sorted, m) ==
    LET k == Cardinality({i \in 1..Len(sorted) : ~StrLess(m.prefix, sorted[i].prefix)})
    IN  SubSeq(sorted, 1, k) \o <<m>> \o SubSeq(sorted, k + 1, Len(sorted))

RECURSIVE SortByPrefix(_)
\* all_matches.sort(key=lambda x: x[0]): a stable sort by prefix.
SortByPrefix(ms) ==
    IF ms = <<>> THEN <<>>
    ELSE InsertByPrefix(SortByPrefix(SubSeq(ms, 1, Len(ms) - 1)), ms[Len(ms)])

CollectAllPatterns(d, pattern, prefixes) ==
    SortByPrefix(CollectInOrder(d, pattern, prefixes))

(***************************************************************************)
(* Collection when the traversal of a paragraph's tracked changes raises.  *)
(* An error f is raised at one site of paragraph f.para:                   *)
(*   "element"      paragraph._element                         (line 134)  *)
(*   "findall_ins"  p_element.findall('.//w:ins')              (line 137)  *)
(*   "findall_del"  p_element.findall('.//w:del')              (line 142)  *)
(*   "findall_t"    element.findall('.//w:t') of element f.node (line 160) *)
(*   "text"         run_elem.text of the leaf f.node           (line 161)  *)
(***************************************************************************)
NoFault == [para |-> 0, site |-> "none", node |-> 0]

\* The sites of the tracked changes of paragraph p.
FaultsOf(p) ==
    LET nodes == ParagraphXml[p]
    IN  {[para |-> p, site |-> s, node |-> 0] :
            s \in {"element", "findall_ins", "findall_del"}}
        \cup
        {[para |-> p, site |-> "findall_t", node |-> n] :
            n \in {i \in 1..Len(nodes) : nodes[i].tag \in {"ins", "del"}}}
        \cup
        {[para |-> p, site |-> "text", node |-> n] :
            n \in {i \in 1..Len(nodes) : nodes[i].tag = "t"}}

\* Lines 156-180: the try block ends at the error, `except Exception: pass`,
\* and the matches appended so far are returned.
CollectXmlElementPatternsRaising(d, p, elem, pattern, prefixes, f) ==
    LET nodes  == ParagraphXml[p]
        leaves == FindAll(nodes, elem, "t")
        bad    == {k \in 1..Len(leaves) :
                      f.para = p /\ f.site = "text" /\ f.node = leaves[k]}
        upto   == IF bad = {} THEN Len(leaves)
                  ELSE (CHOOSE k \in bad : \A j \in bad : k <= j) - 1
    IN  IF f.para = p /\ f.site = "findall_t" /\ f.node = elem THEN <<>>
        ELSE Flatten([k \in 1..upto |->
                LET text == d[nodes[leaves[k]].slot]
                IN  IF text = <<>> THEN <<>>
                    ELSE RecognizedMatches(text, p, nodes[leaves[k]].slot, pattern, prefixes)])

\* Lines 130-149: the try block ends at the error, `except Exception: pass`,
\* and the matches extended so far are returned.
CollectXmlPatternsRaising(d, p, pattern, prefixes, f) ==
    LET nodes == ParagraphXml[p]
        ins   == FindAll(nodes, 0, "ins")
        del   == FindAll(nodes, 0, "del")
    IN  IF f.para = p /\ f.site \in {"element", "findall_ins"} THEN <<>>
        ELSE Flatten([k \in 1..Len(ins) |->
                        CollectXmlElementPatternsRaising(d, p, ins[k], pattern, prefixes, f)])
             \o
             (IF f.para = p /\ f.site = "findall_del" THEN <<>>
              ELSE Flatten([k \in 1..Len(del) |->
                        CollectXmlElementPatternsRaising(d, p, del[k], pattern, prefixes, f)]))

CollectParagraphPatternsRaising(d, p, pattern, prefixes, f) ==
    LET runs == ParagraphRuns[p]
    IN  IF runs = <<>> THEN <<>>
        ELSE Flatten([k \in 1..Len(runs) |->
                        IF Strip(d[runs[k]]) = <<>> THEN <<>>
                        ELSE RecognizedMatches(d[runs[k]], p, runs[k], pattern, prefixes)])
             \o CollectXmlPatternsRaising(d, p, pattern, prefixes, f)

CollectParagraphsRaising(d, ps, pattern, prefixes, f) ==
    Flatten([k \in 1..Len(ps) |->
                CollectParagraphPatternsRaising(d, ps[k], pattern, prefixes, f)])

CollectInOrderRaising(d, pattern, prefixes, f) ==
    CollectParagraphsRaising(d, Body, pattern, prefixes, f)
    \o
    Flatten([t \in 1..Len(Tables) |->
        Flatten([r \in 1..Len(Tables[t]) |->
            Flatten([c \in 1..Len(Tables[t][r]) |->
                CollectParagraphsRaising(d, Tables[t][r][c], pattern, prefixes, f)])])])
    \o
    Flatten([s \in 1..Len(Sections) |->
        CollectParagraphsRaising(d, Sections[s].header, pattern, prefixes, f)
        \o CollectParagraphsRaising(d, Sections[s].footer, pattern, prefixes, f)])

CollectAllPatternsRaising(d, pattern, prefixes, f) ==
    SortByPrefix(CollectInOrderRaising(d, pattern, prefixes, f))

(***************************************************************************)
(* Second pass: rewriting.                                                 *)
(***************************************************************************)
\* The spliced text is lost: element.text keeps its value.
SpliceDropped(text, start_pos, end_pos, replacement) == text

\* before_text + replacement + after_text
Splice(text, start_pos, end_pos, replacement) ==
    Slice(text, 0, start_pos) \o replacement \o SliceFrom(text, end_pos)

(***************************************************************************)
(* The robust rewriter of one paragraph.                                   *)
(***************************************************************************)
\* paragraph.text: the texts of the runs, joined.
ParagraphText(runs) == Flatten(runs)

\* The index of the first run whose text contains old_text, or -1.
TargetRunIndex(runs, old_text) ==
    IF \E i \in 1..Len(runs) : Contains(runs[i], old_text)
    THEN CHOOSE i \in 1..Len(runs) :
            /\ Contains(runs[i], old_text)
            /\ \A j \in 1..(i - 1) : ~Contains(runs[j], old_text)
    ELSE -1

\* The paragraph is rebuilt as three runs, the empty ones too.
ReplaceAcrossRunsThree(runs, old_text, new_text) ==
    LET full_text == ParagraphText(runs)
        start_pos == Find(full_text, old_text)
        end_pos   == start_pos + Len(old_text)
    IN  IF start_pos = -1 THEN runs
        ELSE <<Slice(full_text, 0, start_pos), new_text, SliceFrom(full_text, end_pos)>>

\* paragraph.clear(), then a run for the text before the first occurrence of
\* old_text when there is any, a run for new_text, a run for the text after it
\* when there is any.
ReplaceAcrossRuns(runs, old_text, new_text) ==
    LET full_text   == ParagraphText(runs)
        start_pos   == Find(full_text, old_text)
        end_pos     == start_pos + Len(old_text)
        before_text == Slice(full_text, 0, start_pos)
        after_text  == SliceFrom(full_text, end_pos)
    IN  IF start_pos = -1 THEN runs
        ELSE (IF before_text # <<>> THEN <<before_text>> ELSE <<>>)
             \o <<new_text>>
             \o (IF after_text # <<>> THEN <<after_text>> ELSE <<>>)

\* The first run that contains old_text has its first occurrence replaced;
\* when no run contains it, the paragraph is rebuilt.
ReplaceInRuns(runs, old_text, new_text) ==
    IF runs = <<>> THEN runs
    ELSE LET target_run_index == TargetRunIndex(runs, old_text)
         IN  IF target_run_index = -1
             THEN ReplaceAcrossRuns(runs, old_text, new_text)
             ELSE LET run_text     == runs[target_run_index]
                      target_start == Find(run_text, old_text)
                      target_end   == target_start + Len(old_text)
                  IN  [runs EXCEPT ![target_run_index] =
                          Splice(run_text, target_start, target_end, new_text)]

\* The branch _replace_in_runs takes.
PathOf(runs, old_text) ==
    IF runs = <<>> THEN "no_runs"
    ELSE IF TargetRunIndex(runs, old_text) # -1 THEN "in_run"
    ELSE IF Find(ParagraphText(runs), old_text) # -1 THEN "across_runs"
    ELSE "not_found"

(***************************************************************************)
(* The reducer of extract.py.                                              *)
(***************************************************************************)
\* dict[key] = value: a present key keeps its place, a new one goes last.
DictSet(d, key, value) ==
    IF \E i \in 1..Len(d) : d[i].key = key
    THEN [i \in 1..Len(d) |-> IF d[i].key = key THEN [key |-> key, value |-> value] ELSE d[i]]
    ELSE Append(d, [key |-> key, value |-> value])

DictKeys(d) == {d[i].key : i \in 1..Len(d)}

\* text.split(':', 1)
SplitOnce(text) ==
    LET at == Find(text, <<":">>)
    IN  IF at = -1 THEN <<text>>
        ELSE <<Slice(text, 0, at), SliceFrom(text, at + 1)>>

\* terms[term] = definition.strip()
RecordTerm(d, term, definition) == DictSet(d, term, Strip(definition))

\* The body of the loop over run.comments, for one comment.  st.raised: the
\* two-name unpacking of a split without ':' has raised ValueError.
ScanComment(st, comment) ==
    LET comment_text == Strip(comment)
        st1 == IF StartsWith(comment_text, "@")
               THEN [st EXCEPT !.abbreviations =
                        DictSet(@, st.prev_run_text, SliceFrom(comment_text, 1))]
               ELSE st
    IN  IF StartsWith(comment_text, "#")
        THEN LET parts == SplitOnce(SliceFrom(comment_text, 1))
             IN  IF Len(parts) # 2 THEN [st1 EXCEPT !.raised = TRUE]
                 ELSE [st1 EXCEPT !.terms = RecordTerm(@, parts[1], parts[2])]
        ELSE st1

RECURSIVE ScanComments(_, _)
ScanComments(st, comments) ==
    IF comments = <<>> \/ st.raised THEN st
    ELSE ScanComments(ScanComment(st, Head(comments)), Tail(comments))

\* The body of the loop over paragraph.runs, for one run.
ScanRun(st, run) ==
    LET st1 == IF run.text # <<>>
               THEN [st EXCEPT !.prev_run_text = Strip(run.text)]
               ELSE st
    IN  ScanComments(st1, run.comments)

RECURSIVE ScanRuns(_, _)
\* The try block of one paragraph: it ends with the runs or with the exception.
ScanRuns(st, runs) ==
    IF runs = <<>> \/ st.raised THEN st
    ELSE ScanRuns(ScanRun(st, Head(runs)), Tail(runs))

\* The exception undoes what the paragraph has recorded.
ScanParagraphRollback(st, runs) ==
    IF ScanRuns(st, runs).raised THEN st
    ELSE ScanRuns(st, runs)

\* One paragraph: the exception is caught, and the loop goes on.
ScanParagraph(st, runs) == [ScanRuns(st, runs) EXCEPT !.raised = FALSE]

\* A two-column table: the header row, then one row for each entry.
TableOf(header, d) ==
    <<header>> \o [i \in 1..Len(d) |-> <<d[i].key, d[i].value>>]

(***************************************************************************)
(* The state.                                                              *)
(***************************************************************************)
VARIABLES
    pc,
    pattern,        \* the pattern argument
    counters,       \* prefix -> next number
    replacements,   \* prefix -> generated tokens
    idx,            \* how many matches the loop has gone through
    \* find_and_replace_patterns
    input,          \* the document in input_file
    doc,            \* the loaded document: the text of each slot
    all_matches,    \* the collected matches, sorted
    output,         \* the document in output_file
    fault,          \* the site of the input document whose access raises
    \* _process_paragraph_robust
    paragraph,      \* the runs of the paragraph
    other,          \* the runs of another paragraph of the document
    matches,        \* the matches found in paragraph.text
    path,           \* the branch the last _replace_in_runs has taken
    \* extract_abbreviations
    document,       \* the paragraphs of the document: runs with their comments
    scanned,        \* how many paragraphs have been scanned
    prev_run_text,
    abbreviations,
    terms,
    abbr_doc,       \* the saved abbreviations document: its tables
    terms_doc       \* the saved terms document: its tables

svars == <<pc, pattern, counters, replacements, idx>>

evars == <<input, doc, all_matches, output, fault>>

rvars == <<paragraph, other, matches, path>>

xvars == <<document, scanned, prev_run_text, abbreviations, terms, abbr_doc, terms_doc>>

vars == <<svars, evars, rvars, xvars>>

EmptyDoc == [s \in Slots |-> <<>>]

EnumeratorIdle ==
    /\ input = EmptyDoc
    /\ doc = EmptyDoc
    /\ all_matches = <<>>
    /\ output = EmptyDoc
    /\ fault = NoFault

RobustIdle ==
    /\ paragraph = <<>>
    /\ other = <<>>
    /\ matches = <<>>
    /\ path = "none"

ReducerIdle ==
    /\ document = <<>>
    /\ scanned = 0
    /\ prev_run_text = <<>>
    /\ abbreviations = <<>>
    /\ terms = <<>>
    /\ abbr_doc = <<>>
    /\ terms_doc = <<>>

(***************************************************************************)
(* find_and_replace_patterns as a state machine.                           *)
(***************************************************************************)
\* A placeholder token of the pattern, in upper or lower case.
Token(prefix, x, w) ==
    <<"[">> \o prefix \o <<"-">> \o [i \in 1..w |-> x] \o <<"]">>

\* The pieces input texts are made of.
Pieces(w) == << Token(REQ, "X", w), <<" ">> \o Token(SYS, "x", w), Token(FOO, "X", w) >>

\* The document with piece ps[i] appended to slot ss[i], for i = 1, 2, ...
DocOf(ps, ss, w) ==
    [s \in Slots |->
        Flatten(SelectSeq([i \in 1..Len(ps) |-> IF ss[i] = s THEN Pieces(w)[ps[i]] ELSE <<>>],
                          LAMBDA t : t # <<>>))]

\* Up to MaxPieces pieces, laid into the slots from the first slot to the last.
Placements ==
    UNION { { x \in [1..n -> 1..Len(Pieces(DefaultPattern))] \X [1..n -> Slots] :
                \A i \in 1..(n - 1) : x[2][i] <= x[2][i + 1] } :
            n \in 0..MaxPieces }

Init ==
    /\ pattern \in Patterns
    /\ \E x \in Placements : input = DocOf(x[1], x[2], pattern)
    /\ doc = EmptyDoc
    /\ all_matches = <<>>
    /\ idx = 0
    /\ counters = [p \in PrefixSet |-> 1]
    /\ replacements = [p \in PrefixSet |-> <<>>]
    /\ output = EmptyDoc
    /\ fault = NoFault
    /\ pc = "collect"
    /\ RobustIdle
    /\ ReducerIdle

\* Lines 29-37: the counters, Document(input_file), _collect_all_patterns.
Collect ==
    /\ pc = "collect"
    /\ counters' = [p \in PrefixSet |-> 1]
    /\ replacements' = [p \in PrefixSet |-> <<>>]
    /\ doc' = input
    /\ all_matches' = CollectAllPatterns(input, pattern, PrefixSet)
    /\ idx' = 0
    /\ pc' = "process"
    /\ UNCHANGED <<input, fault, pattern, output, rvars, xvars>>

\* One iteration of the loop of _process_all_patterns.
Process ==
    /\ pc = "process"
    /\ idx < Len(all_matches)
    /\ LET m           == all_matches[idx + 1]
           number      == counters[m.prefix]
           replacement == Replacement(m.prefix, number)
       IN  /\ counters' = [counters EXCEPT ![m.prefix] = number + 1]
           /\ replacements' = [replacements EXCEPT ![m.prefix] = Append(@, replacement)]
           /\ doc' = [doc EXCEPT ![m.slot] = Splice(@, m.start, m.end, replacement)]
    /\ idx' = idx + 1
    /\ UNCHANGED <<input, fault, pattern, all_matches, output, pc, rvars, xvars>>

\* Lines 43-45: the loop is over; doc.save(output_file).
Save ==
    /\ pc = "process"
    /\ idx = Len(all_matches)
    /\ output' = doc
    /\ pc' = "done"
    /\ UNCHANGED <<input, fault, pattern, doc, all_matches, idx, counters, replacements,
                   rvars, xvars>>

Next == Collect \/ Process \/ Save

Spec == Init /\ [][Next]_vars

(***************************************************************************)
(* find_and_replace_patterns on a document whose tracked changes raise an  *)
(* error when they are walked.                                             *)
(***************************************************************************)
\* Input documents made of recognized tokens.
RecognizedPlacements ==
    {x \in Placements : \A i \in DOMAIN x[1] : Pieces(DefaultPattern)[x[1][i]] # Token(FOO, "X", DefaultPattern)}

\* The error sites: every site of the paragraph with the tracked changes, and
\* paragraph._element of a paragraph without any.
Faults ==
    FaultsOf(1) \cup {[para |-> 2, site |-> "element", node |-> 0]}

InitOverlay ==
    /\ pattern = DefaultPattern
    /\ \E x \in RecognizedPlacements : input = DocOf(x[1], x[2], pattern)
    /\ fault \in Faults
    /\ doc = EmptyDoc
    /\ all_matches = <<>>
    /\ idx = 0
    /\ counters = [p \in PrefixSet |-> 1]
    /\ replacements = [p \in PrefixSet |-> <<>>]
    /\ output = EmptyDoc
    /\ pc = "collect"
    /\ RobustIdle
    /\ ReducerIdle

\* Lines 29-37, the traversal of the tracked changes raising at fault.
CollectOverlay ==
    /\ pc = "collect"
    /\ counters' = [p \in PrefixSet |-> 1]
    /\ replacements' = [p \in PrefixSet |-> <<>>]
    /\ doc' = input
    /\ all_matches' = CollectAllPatternsRaising(input, pattern, PrefixSet, fault)
    /\ idx' = 0
    /\ pc' = "process"
    /\ UNCHANGED <<input, fault, pattern, output, rvars, xvars>>

NextOverlay == CollectOverlay \/ Process \/ Save

SpecOverlay == InitOverlay /\ [][NextOverlay]_vars

(***************************************************************************)
(* _process_paragraph_robust as a state machine.                           *)
(***************************************************************************)
\* Text pieces in the paragraph the robust rewriter is given.
MaxRobustPieces == 3

RECURSIVE SplitAtCuts(_, _, _)
\* The runs of text when it is cut at the offsets in cuts.
SplitAtCuts(text, cuts, from) ==
    IF from >= Len(text) THEN <<>>
    ELSE LET later == {c \in cuts : c > from /\ c < Len(text)}
             next  == IF later = {} THEN Len(text)
                      ELSE CHOOSE c \in later : \A d \in later : c <= d
         IN  <<Slice(text, from, next)>> \o SplitAtCuts(text, cuts, next)

\* The runs of a paragraph made of pieces ps, cut in the middle of piece i when
\* mid[i] and behind piece i when end[i].
RunsOf(ps, mid, end) ==
    LET piece(i) == Pieces(DefaultPattern)[ps[i]]
        at(i)    == Len(Flatten([j \in 1..(i - 1) |-> piece(j)]))
        cuts     == {at(i) + (Len(piece(i)) \div 2) : i \in {j \in 1..Len(ps) : mid[j]}}
                    \cup {at(i) + Len(piece(i)) : i \in {j \in 1..Len(ps) : end[j]}}
    IN  SplitAtCuts(Flatten([i \in 1..Len(ps) |-> piece(i)]), cuts, 0)

InitRobust ==
    /\ pattern = DefaultPattern
    /\ \E n \in 0..MaxRobustPieces :
          \E ps \in [1..n -> 1..Len(Pieces(DefaultPattern))],
             mid \in [1..n -> BOOLEAN], end \in [1..n -> BOOLEAN] :
              paragraph = RunsOf(ps, mid, end)
    /\ other = <<Token(REQ, "X", DefaultPattern), Token(FOO, "X", DefaultPattern)>>
    /\ matches = <<>>
    /\ path = "none"
    /\ idx = 0
    /\ counters = [p \in PrefixSet |-> 1]
    /\ replacements = [p \in PrefixSet |-> <<>>]
    /\ pc = "robust"
    /\ EnumeratorIdle
    /\ ReducerIdle

\* Lines 389-398: the matches in paragraph.text, left to right.
RobustFind ==
    /\ pc = "robust"
    /\ matches' = FindIter(ParagraphText(paragraph), pattern)
    /\ idx' = 0
    /\ pc' = IF matches' = <<>> THEN "done" ELSE "matches"
    /\ UNCHANGED <<pattern, counters, replacements, paragraph, other, path, evars, xvars>>

\* One iteration of the loop over the matches.
RobustReplace ==
    /\ pc = "matches"
    /\ idx < Len(matches)
    /\ LET m == matches[idx + 1]
       IN  IF m.prefix \notin PrefixSet
           THEN /\ path' = "skipped"
                /\ UNCHANGED <<counters, replacements, paragraph>>
           ELSE LET number      == counters[m.prefix]
                    replacement == Replacement(m.prefix, number)
                IN  /\ counters' = [counters EXCEPT ![m.prefix] = number + 1]
                    /\ replacements' =
                          [replacements EXCEPT ![m.prefix] = Append(@, replacement)]
                    /\ paragraph' = ReplaceInRuns(paragraph, m.text, replacement)
                    /\ path' = PathOf(paragraph, m.text)
    /\ idx' = idx + 1
    /\ UNCHANGED <<pc, pattern, other, matches, evars, xvars>>

\* The loop is over.
RobustReturn ==
    /\ pc = "matches"
    /\ idx = Len(matches)
    /\ pc' = "done"
    /\ UNCHANGED <<pattern, counters, replacements, idx, rvars, evars, xvars>>

NextRobust == RobustFind \/ RobustReplace \/ RobustReturn

SpecRobust == InitRobust /\ [][NextRobust]_vars

(***************************************************************************)
(* extract_abbreviations as a state machine.                               *)
(***************************************************************************)
\* Runs in the document the reducer is given.
MaxRuns == 3

RunTexts == << <<"R","e","q","1">>, <<" ">>, <<>> >>

\* The comments of a run.
RunComments ==
    << <<>>,
       << <<"@","R","E","Q">> >>,
       << <<"#","b","a","d">> >>,
       << <<"#"," ","T","e","r","m"," ",":"," ","m","e","a","n","s"," ","X">> >> >>

AbbrHeader ==
    << <<"A","b","b","r","e","v","i","a","t","i","o","n">>,
       <<"M","e","a","n","i","n","g">> >>

TermsHeader ==
    << <<"T","e","r","m">>,
       <<"D","e","f","i","n","i","t","i","o","n">> >>

InitReduce ==
    /\ \E n \in 0..MaxRuns :
          \E ts \in [1..n -> 1..Len(RunTexts)], cs \in [1..n -> 1..Len(RunComments)],
             b \in 0..n :
              LET runs == [i \in 1..n |-> [text |-> RunTexts[ts[i]],
                                           comments |-> RunComments[cs[i]]]]
              IN  document = <<SubSeq(runs, 1, b), SubSeq(runs, b + 1, n)>>
    /\ scanned = 0
    /\ prev_run_text = <<>>
    /\ abbreviations = <<>>
    /\ terms = <<>>
    /\ abbr_doc = <<>>
    /\ terms_doc = <<>>
    /\ pc = "scan"
    /\ pattern = DefaultPattern
    /\ idx = 0
    /\ counters = [p \in PrefixSet |-> 1]
    /\ replacements = [p \in PrefixSet |-> <<>>]
    /\ EnumeratorIdle
    /\ RobustIdle

\* One iteration of the loop over doc.paragraphs.
Scan ==
    /\ pc = "scan"
    /\ scanned < Len(document)
    /\ LET st == ScanParagraph([abbreviations |-> abbreviations,
                                terms         |-> terms,
                                prev_run_text |-> prev_run_text,
                                raised        |-> FALSE],
                               document[scanned + 1])
       IN  /\ abbreviations' = st.abbreviations
           /\ terms' = st.terms
           /\ prev_run_text' = st.prev_run_text
    /\ scanned' = scanned + 1
    /\ UNCHANGED <<svars, document, abbr_doc, terms_doc, evars, rvars>>

\* Lines 43-65: the table of abbreviations, a second table of one empty row,
\* and abbr_doc.save.
EmitAbbreviations ==
    /\ pc = "scan"
    /\ scanned = Len(document)
    /\ abbr_doc' = << TableOf(AbbrHeader, abbreviations), << <<<<>>, <<>>>> >> >>
    /\ pc' = "terms"
    /\ UNCHANGED <<pattern, counters, replacements, idx, document, scanned,
                   prev_run_text, abbreviations, terms, terms_doc, evars, rvars>>

\* Lines 67-86: the table of terms and terms_doc.save.
EmitTerms ==
    /\ pc = "terms"
    /\ terms_doc' = << TableOf(TermsHeader, terms) >>
    /\ pc' = "done"
    /\ UNCHANGED <<pattern, counters, replacements, idx, document, scanned,
                   prev_run_text, abbreviations, terms, abbr_doc, evars, rvars>>

NextReduce == Scan \/ EmitAbbreviations \/ EmitTerms

SpecReduce == InitReduce /\ [][NextReduce]_vars

(***************************************************************************)
(* Reading a rewritten document: the generated tokens [PREFIX-digits].     *)
(***************************************************************************)
RECURSIVE DigitRun(_, _)
\* The number of consecutive digits of text from 1-based index i.
DigitRun(text, i) ==
    IF i <= Len(text) /\ IsDigit(text[i]) THEN 1 + DigitRun(text, i + 1) ELSE 0

DigitValue(c) == (CHOOSE i \in 1..Len(Digits) : Digits[i] = c) - 1

RECURSIVE ParseNat(_)
ParseNat(ds) ==
    IF ds = <<>> THEN 0
    ELSE 10 * ParseNat(SubSeq(ds, 1, Len(ds) - 1)) + DigitValue(ds[Len(ds)])

RECURSIVE NumberedFrom(_, _)
\* The tokens [LETTERS-digits] of text from offset s on, left to right, each as
\* its prefix and its number.
NumberedFrom(text, s) ==
    IF s >= Len(text) THEN <<>>
    ELSE LET n == UpperRun(text, s + 2)
             k == DigitRun(text, s + 3 + n)
             e == s + 1 + n + 1 + k + 1
         IN  IF /\ text[s + 1] = "["
                /\ n >= 1
                /\ e <= Len(text)
                /\ text[s + 2 + n] = "-"
                /\ k >= 1
                /\ text[e] = "]"
             THEN <<[prefix |-> Slice(text, s + 1, s + 1 + n),
                     number |-> ParseNat(Slice(text, s + 2 + n, e - 1))]>>
                  \o NumberedFrom(text, e)
             ELSE NumberedFrom(text, s + 1)

\* The numbers the tokens of prefix P carry in document d, slot by slot.
NumbersIn(d, P) ==
    Flatten([s \in Slots |->
        LET toks == SelectSeq(NumberedFrom(d[s], 0), LAMBDA t : t.prefix = P)
        IN  [k \in 1..Len(toks) |-> toks[k].number]])

OfPrefix(ms, P) == SelectSeq(ms, LAMBDA m : m.prefix = P)

\* The placeholder tokens of text whose prefix is not recognized, verbatim.
UnrecognizedIn(text, pat) ==
    LET found == SelectSeq(FindIter(text, pat), LAMBDA m : m.prefix \notin PrefixSet)
    IN  [k \in 1..Len(found) |-> found[k].text]

(***************************************************************************)
(* Properties of find_and_replace_patterns.                                *)
(***************************************************************************)

\* C1: after the transform, for every recognized prefix P the tokens [P-NNN] of
\* the document are as many as the collected occurrences of P, and the numbers
\* they carry are exactly 1..n: start at 1, no gaps, no repeats.  Stated for
\* the default pattern, under which it fails already.
C1_ConsecutiveNumbers ==
    (pc = "done" /\ pattern = DefaultPattern) =>
        \A P \in PrefixSet :
            LET n    == Len(OfPrefix(all_matches, P))
                nums == NumbersIn(output, P)
            IN  /\ Len(nums) = n
                /\ {nums[k] : k \in 1..Len(nums)} = 1..n

\* C2: a token whose prefix is not recognized is never collected, advances no
\* counter, gets no replacement record, and after the transform stands verbatim
\* in its span, in the order it had among that span's unrecognized tokens.
C2_UnrecognizedUntouched ==
    /\ \A i \in 1..Len(all_matches) : all_matches[i].prefix \in PrefixSet
    /\ DOMAIN counters = PrefixSet
    /\ DOMAIN replacements = PrefixSet
    /\ \A P \in PrefixSet :
          /\ counters[P] = 1 + Len(OfPrefix(SubSeq(all_matches, 1, idx), P))
          /\ Len(replacements[P]) = counters[P] - 1
    /\ pc = "done" =>
          \A s \in Slots :
              UnrecognizedIn(output[s], pattern) = UnrecognizedIn(input[s], pattern)

\* C3: every rewrite removes exactly the match's matched_text: the text at
\* [start_offset, end_offset) of the span at the moment of the rewrite is
\* matched_text, the length changes by len(replacement) - len(matched_text), and
\* the text before start_offset and after end_offset stays as it was.  Stated
\* for the default pattern, under which it fails already.
C3_SpanIntegrity ==
    [][ (pc = "process" /\ idx' = idx + 1 /\ pattern = DefaultPattern) =>
          LET m        == all_matches[idx + 1]
              old_text == doc[m.slot]
              new_text == doc'[m.slot]
              repl     == Replacement(m.prefix, counters[m.prefix])
          IN  /\ Slice(old_text, m.start, m.end) = m.text
              /\ Len(new_text) = Len(old_text) - Len(m.text) + Len(repl)
              /\ Slice(new_text, 0, m.start) = Slice(old_text, 0, m.start)
              /\ SliceFrom(new_text, m.start + Len(repl)) = SliceFrom(old_text, m.end)
              /\ \A s \in Slots \ {m.slot} : doc'[s] = doc[s] ]_vars

VisitOrder == <<1, 2, 4, 4, 3, 5, 5, 6, 7>>

\* The occurrences of prefix P in the input, in the order of the traversal and
\* left to right within a span.
MetInOrder(P) ==
    Flatten([k \in 1..Len(VisitOrder) |->
        LET found == OfPrefix(FindIter(input[VisitOrder[k]], pattern), P)
        IN  [i \in 1..Len(found) |-> [slot |-> VisitOrder[k], start |-> found[i].start]]])

\* C7: the matches of one prefix are processed in the order the traversal met
\* them, and the k-th of them receives the number k.
C7_OrderWithinPrefix ==
    pc = "done" =>
        \A P \in PrefixSet :
            LET got  == OfPrefix(all_matches, P)
                met  == MetInOrder(P)
                done == Len(OfPrefix(SubSeq(all_matches, 1, idx), P))
            IN  /\ Len(got) = Len(met)
                /\ \A k \in 1..Len(got) :
                      got[k].slot = met[k].slot /\ got[k].start = met[k].start
                /\ replacements[P] = [k \in 1..done |-> Replacement(P, k)]
                /\ counters[P] = done + 1

\* All matches numbered; the sort moved a match; one prefix occurs in a run and
\* in a tracked change of paragraph 1, twice in one span, and in the footer.
C7_Witness ==
    /\ pc = "done"
    /\ all_matches # CollectInOrder(input, pattern, PrefixSet)
    /\ \E i, j \in 1..Len(all_matches) :
          /\ i < j
          /\ all_matches[i].prefix = all_matches[j].prefix
          /\ \/ all_matches[i].slot \in {1, 2} /\ all_matches[j].slot \in {3, 4}
             \/ all_matches[i].slot = all_matches[j].slot
                  /\ all_matches[i].start < all_matches[j].start
             \/ all_matches[i].para < all_matches[j].para

(***************************************************************************)
(* Properties of _process_paragraph_robust.                                *)
(***************************************************************************)

\* C5: when no run contains the matched text, the runs of the paragraph are
\* replaced by exactly three runs, the text before the match, the replacement
\* and the text after the match, and no other paragraph changes.
C5_ThreeSpans ==
    [][ ( /\ pc = "matches"
          /\ idx' = idx + 1
          /\ matches[idx + 1].prefix \in PrefixSet
          /\ PathOf(paragraph, matches[idx + 1].text) = "across_runs" ) =>
          LET m         == matches[idx + 1]
              full_text == ParagraphText(paragraph)
              at        == Find(full_text, m.text)
              before    == Slice(full_text, 0, at)
              after     == SliceFrom(full_text, at + Len(m.text))
              repl      == Replacement(m.prefix, counters[m.prefix])
          IN  /\ paragraph' = <<before, repl, after>>
              /\ other' = other ]_vars

\* C5, amended: the paragraph is rebuilt as the text before the first
\* occurrence of the matched text when that is not empty, the replacement, and
\* the text after it when that is not empty: three runs, two when the match
\* begins or ends the text, one when it is all of it.  The runs joined are
\* before + replacement + after, and no other paragraph changes.
C5_RebuiltSpans ==
    [][ ( /\ pc = "matches"
          /\ idx' = idx + 1
          /\ matches[idx + 1].prefix \in PrefixSet
          /\ PathOf(paragraph, matches[idx + 1].text) = "across_runs" ) =>
          LET m         == matches[idx + 1]
              full_text == ParagraphText(paragraph)
              at        == Find(full_text, m.text)
              before    == Slice(full_text, 0, at)
              after     == SliceFrom(full_text, at + Len(m.text))
              repl      == Replacement(m.prefix, counters[m.prefix])
          IN  /\ paragraph' = SelectSeq(<<before>>, LAMBDA t : t # <<>>)
                              \o <<repl>>
                              \o SelectSeq(<<after>>, LAMBDA t : t # <<>>)
              /\ \A i \in 1..Len(paragraph') : paragraph'[i] # <<>>
              /\ ParagraphText(paragraph') = before \o repl \o after
              /\ other' = other ]_vars

\* The paragraph has just been rebuilt for a match at the very start or the
\* very end of its text.
C5_Witness ==
    /\ path = "across_runs"
    /\ Len(paragraph) < 3

\* C8: after the robust rewriter has run, the tokens of each recognized prefix
\* carry, from left to right in the text of the paragraph, the numbers 1, 2, ...
C8_LeftToRight ==
    pc = "done" =>
        \A P \in PrefixSet :
            LET toks == OfPrefix(NumberedFrom(ParagraphText(paragraph), 0), P)
            IN  \A k \in 1..Len(toks) : toks[k].number = k

(***************************************************************************)
(* Properties of extract_abbreviations.                                    *)
(***************************************************************************)
AllRuns(d) == Flatten(d)

\* A '#' annotation without the ':' separator.
IsMalformed(comment) ==
    StartsWith(Strip(comment), "#") /\ ~Contains(comment, <<":">>)

NoMalformed(d) ==
    \A i \in 1..Len(AllRuns(d)) :
        \A j \in 1..Len(AllRuns(d)[i].comments) : ~IsMalformed(AllRuns(d)[i].comments[j])

RECURSIVE AbbreviationsOf(_, _, _)
\* The map the spans should yield: k is the text of the last span that is not
\* blank, and an annotation '@...' records its text after '@' under k.
AbbreviationsOf(runs, k, abbr) ==
    IF runs = <<>> THEN abbr
    ELSE LET run  == Head(runs)
             k1   == IF Strip(run.text) # <<>> THEN run.text ELSE k
             ats  == SelectSeq(run.comments, LAMBDA c : StartsWith(c, "@"))
             abbr1 == IF ats = <<>> THEN abbr
                      ELSE DictSet(abbr, k1, SliceFrom(ats[Len(ats)], 1))
         IN  AbbreviationsOf(Tail(runs), k1, abbr1)

\* C6: every annotation '@...' is recorded under the text of the last span,
\* at or before the annotated one, whose text is not blank.
C6_AbbreviationKey ==
    (pc = "done" /\ NoMalformed(document)) =>
        abbreviations = AbbreviationsOf(AllRuns(document), <<>>, <<>>)

\* C9: every annotation '#left:right' is recorded as terms[trim(left)] =
\* trim(right): no key of the term map begins or ends with white space, and the
\* trimmed left part of every such annotation is a key.
C9_TermKeyTrimmed ==
    (pc = "done" /\ NoMalformed(document)) =>
        /\ \A i \in 1..Len(terms) : terms[i].key = Strip(terms[i].key)
        /\ \A i \in 1..Len(AllRuns(document)) :
              \A j \in 1..Len(AllRuns(document)[i].comments) :
                  LET c == AllRuns(document)[i].comments[j]
                  IN  (StartsWith(c, "#") /\ Contains(c, <<":">>)) =>
                          Strip(SplitOnce(SliceFrom(c, 1))[1]) \in DictKeys(terms)

\* The runs of a paragraph up to its first malformed annotation: the runs
\* before the annotated run, and that run with the comments before it.
UpToMalformed(runs) ==
    LET bad(i) == \E j \in 1..Len(runs[i].comments) : IsMalformed(runs[i].comments[j])
        r      == CHOOSE i \in 1..Len(runs) : bad(i) /\ \A h \in 1..(i - 1) : ~bad(h)
        c      == CHOOSE j \in 1..Len(runs[r].comments) :
                      /\ IsMalformed(runs[r].comments[j])
                      /\ \A h \in 1..(j - 1) : ~IsMalformed(runs[r].comments[h])
    IN  SubSeq(runs, 1, r - 1)
        \o <<[text |-> runs[r].text, comments |-> SubSeq(runs[r].comments, 1, c - 1)]>>

HasMalformed(runs) ==
    \E i \in 1..Len(runs) : \E j \in 1..Len(runs[i].comments) :
        IsMalformed(runs[i].comments[j])

\* C10: a '#' annotation without ':' ends the scan of its paragraph only.  The
\* paragraph leaves what its runs and annotations before the malformed one
\* leave, every key recorded so far stays, the loop goes on with the next
\* paragraph, and once all paragraphs are scanned both tables are written.
C10_MalformedEndsParagraphOnly ==
    [][ /\ (pc = "scan" /\ scanned' = scanned + 1) =>
              LET runs == document[scanned + 1]
                  st   == [abbreviations |-> abbreviations,
                           terms         |-> terms,
                           prev_run_text |-> prev_run_text,
                           raised        |-> FALSE]
                  cut  == ScanRuns(st, UpToMalformed(runs))
              IN  /\ pc' = "scan"
                  /\ DictKeys(abbreviations) \subseteq DictKeys(abbreviations')
                  /\ DictKeys(terms) \subseteq DictKeys(terms')
                  /\ HasMalformed(runs) =>
                        /\ abbreviations' = cut.abbreviations
                        /\ terms' = cut.terms
                        /\ prev_run_text' = cut.prev_run_text
        /\ (pc = "scan" /\ pc' # "scan") => scanned = Len(document)
        /\ pc' = "done" =>
              /\ abbr_doc'[1] = TableOf(AbbrHeader, abbreviations')
              /\ terms_doc' = <<TableOf(TermsHeader, terms')>> ]_vars

\* Both tables are written for a document whose first paragraph has a malformed
\* annotation with an entry recorded before it and an annotated run behind it,
\* and whose second paragraph has recorded a term.
C10_Witness ==
    /\ pc = "done"
    /\ Len(document[1]) >= 2
    /\ HasMalformed(document[1])
    /\ HasMalformed(<<document[1][1]>>)
    /\ document[1][2].comments # <<>>
    /\ ~HasMalformed(document[2])
    /\ terms # <<>>
    /\ abbreviations = <<>>
    /\ Len(terms_doc[1]) = 2
    /\ Len(abbr_doc[1]) = 1

(***************************************************************************)
(* Errors in the traversal of the tracked changes.                         *)
(***************************************************************************)
\* The slots of the w:t leaves of the tracked changes of paragraph p.
OverlaySlots(p) ==
    {ParagraphXml[p][i].slot :
        i \in {j \in 1..Len(ParagraphXml[p]) : ParagraphXml[p][j].tag = "t"}}

\* The collection without the matches of the tracked changes of paragraph p.
WithoutOverlayOf(p) ==
    SortByPrefix(SelectSeq(CollectInOrder(input, pattern, PrefixSet),
                           LAMBDA m : ~(m.para = p /\ m.slot \in OverlaySlots(p))))

\* C11: when an error is raised while the tracked changes of a paragraph are
\* walked, the collection holds no match of that paragraph's tracked changes,
\* and holds the matches of its runs and of every other paragraph as it does
\* without the error.
C11_ErrorEmptiesOverlay ==
    (pc \in {"process", "done"} /\ fault # NoFault) =>
        all_matches = WithoutOverlayOf(fault.para)

(***************************************************************************)
(* Several matches in one span.                                            *)
(***************************************************************************)
\* Span s was collected once: it has as many collected matches as its text
\* has recognized tokens.
CollectedOnce(s) ==
    Len(SelectSeq(all_matches, LAMBDA m : m.slot = s))
        = Len(SelectSeq(FindIter(input[s], pattern), LAMBDA m : m.prefix \in PrefixSet))

\* The number the k-th collected match gets: its place among the matches of
\* its prefix.
NumberOf(k) ==
    Cardinality({j \in 1..k : all_matches[j].prefix = all_matches[k].prefix})

\* The positions of the text of span s that lie in one of its collected matches.
Matched(s) ==
    {i \in 1..Len(input[s]) :
        \E k \in 1..Len(all_matches) :
            /\ all_matches[k].slot = s
            /\ all_matches[k].start < i
            /\ i <= all_matches[k].end}

\* C12: with the default pattern and numbers up to 999, a span collected once
\* has, at every point of the second pass, each processed match replaced by its
\* numbered token at the match's own offsets, each match not yet processed
\* still in place, and every character outside the matches as in the input;
\* the written document has all of its matches replaced.
C12_SameSpanSafe ==
    (pc \in {"process", "done"} /\ pattern = DefaultPattern
        /\ \A P \in PrefixSet : counters[P] <= 1000) =>
        \A s \in {t \in Slots : CollectedOnce(t)} :
            /\ Len(doc[s]) = Len(input[s])
            /\ \A i \in (1..Len(input[s])) \ Matched(s) : doc[s][i] = input[s][i]
            /\ \A k \in 1..Len(all_matches) :
                  all_matches[k].slot = s =>
                      Slice(doc[s], all_matches[k].start, all_matches[k].end)
                          = IF k <= idx
                            THEN Replacement(all_matches[k].prefix, NumberOf(k))
                            ELSE all_matches[k].text
            /\ pc = "done" => output[s] = doc[s]

\* A completed transform, default pattern, of a span collected once that holds
\* three tokens of two prefixes, of which one processed earlier lies to the
\* left of one processed later, and one to the right.
C12_Witness ==
    /\ pc = "done"
    /\ pattern = DefaultPattern
    /\ \E s \in Slots :
          /\ CollectedOnce(s)
          /\ Len(SelectSeq(all_matches, LAMBDA m : m.slot = s)) = 3
          /\ \E j, k \in 1..Len(all_matches) :
                /\ j < k
                /\ all_matches[j].slot = s
                /\ all_matches[k].slot = s
                /\ all_matches[j].start < all_matches[k].start
          /\ \E j, k \in 1..Len(all_matches) :
                /\ j < k
                /\ all_matches[j].slot = s
                /\ all_matches[k].slot = s
                /\ all_matches[j].prefix # all_matches[k].prefix
                /\ all_matches[j].start > all_matches[k].start

====
